---- MODULE Spec2Model ----
(***************************************************************************)
(* Model of src/src/telegram_bot.py: class IVASMSTelegramBot.              *)
(*                                                                         *)
(* Text is modelled as a sequence of code points (integers), a reply as    *)
(* the record of the values its f-string interpolates, and each handler    *)
(* as one action per stretch of code between two suspension points that    *)
(* matter (status_command awaits the storage collaborator in its middle).  *)
(* Handlers are invoked on an update directly, as the dispatcher or a      *)
(* test would invoke the bound method.                                     *)
(***************************************************************************)
EXTENDS Integers, Sequences, FiniteSets, TLC

VARIABLES
    admin_chat_ids,   \* self.admin_chat_ids : list of chat ids
    application,      \* self.application is not None
    registered,       \* handlers added to self.application so far, in order
    start_time,       \* self.start_time (seconds)
    is_monitoring,    \* self.is_monitoring
    last_login_time,  \* self.last_login_time (None or seconds)
    last_fetch_time,  \* self.last_fetch_time (None or seconds)
    now,              \* datetime.now() (seconds)
    log_file,         \* the file LOG_FILE names: exists flag and its lines
    update,           \* the update being handled / last handled
    pc,               \* where its handler stands
    exc,              \* the call whose exception left the handler, if any
    status_text,      \* status_command's local status_text across its await
    replies,          \* update.message.reply_text calls made for the update
    calls,            \* collaborator calls made for the update
    op,               \* the last notification operation and how it ended
    error_msg,        \* the text that operation handed to send_admin_message
    attempts,         \* bot.send_message calls of that operation, in order
    logged            \* logger.error calls of that operation, in order

vars == <<admin_chat_ids, application, registered, start_time, is_monitoring,
          last_login_time, last_fetch_time, now, log_file, update, pc, exc,
          status_text, replies, calls, op, error_msg, attempts, logged>>

botState == <<start_time, is_monitoring, last_login_time, last_fetch_time>>
config == <<admin_chat_ids, application, registered>>
routerVars == <<update, pc, exc, status_text, replies, calls>>
notifyVars == <<op, error_msg, attempts, logged>>

----------------------------------------------------------------------------
(* Bounds of the model *)

MaxChatId == 3      \* chat ids are 1..MaxChatId; MaxChatId + 1 is a stranger
MaxAdmins == 3      \* longest admin_chat_ids list
MaxLogLines == 3    \* longest log file
MaxOtpCount == 2    \* largest count the storage collaborator returns
MaxNow == 1         \* clock ticks the model lets pass
TickSeconds == 45   \* seconds per clock tick
MaxShortTrace == 2  \* longest trace where the limit is not at stake
MaxDays == 1        \* longest uptime, in whole days (plus hours and minutes)
MaxTextLen == 3     \* longest text given to escape_markdown

(* Program constants *)

DefaultLines == 20
MinLines == 1
MaxLines == 100
TraceLimit == 500

None == -1

ChatIds == 1..(MaxChatId + 1)

----------------------------------------------------------------------------
(* Pure helpers *)

Max(a, b) == IF a >= b THEN a ELSE b
Min(a, b) == IF a <= b THEN a ELSE b

RECURSIVE DigitsValue(_)
DigitsValue(s) ==
    IF s = <<>> THEN 0
    ELSE DigitsValue(SubSeq(s, 1, Len(s) - 1)) * 10 + (s[Len(s)] - 48)

\* int(context.args[0]): an optional sign and one or more decimal digits,
\* otherwise ValueError.
int(s) ==
    LET signed == s # <<>> /\ s[1] \in {43, 45}
        body == IF signed THEN Tail(s) ELSE s
        sign == IF signed /\ s[1] = 45 THEN -1 ELSE 1
    IN  IF body # <<>> /\ \A i \in DOMAIN body : body[i] \in 48..57
        THEN [ok |-> TRUE, value |-> sign * DigitsValue(body)]
        ELSE [ok |-> FALSE, value |-> 0]

\* (a plausible slip: any positive chat id passes)
is_admin_any(chat_id) == chat_id > 0

is_admin(chat_id) == \E i \in DOMAIN admin_chat_ids : admin_chat_ids[i] = chat_id

\* (a plausible slip: hours taken from the whole duration, not from
\* uptime.seconds)
_get_uptime_total ==
    LET uptime == now - start_time
        days == uptime \div 86400
        hours == uptime \div 3600
        minutes == (uptime % 3600) \div 60
    IN  IF days > 0 THEN [form |-> "dhm", d |-> days, h |-> hours, m |-> minutes]
        ELSE IF hours > 0 THEN [form |-> "hm", d |-> 0, h |-> hours, m |-> minutes]
        ELSE [form |-> "m", d |-> 0, h |-> 0, m |-> minutes]

\* the string as the format it has ("dhm": "{d}d {h}h {m}m", "hm": "{h}h {m}m",
\* "m": "{m}m") and the numbers in it
_get_uptime ==
    LET uptime == now - start_time
        days == uptime \div 86400
        seconds == uptime % 86400
        hours == seconds \div 3600
        remainder == seconds % 3600
        minutes == remainder \div 60
    IN  IF days > 0 THEN [form |-> "dhm", d |-> days, h |-> hours, m |-> minutes]
        ELSE IF hours > 0 THEN [form |-> "hm", d |-> 0, h |-> hours, m |-> minutes]
        ELSE [form |-> "m", d |-> 0, h |-> 0, m |-> minutes]

NoUptime == [form |-> "", d |-> 0, h |-> 0, m |-> 0]

\* (a plausible slip: the slice [:lines], the head of the file)
FirstLines(all, lines) ==
    IF lines >= Len(all) THEN all ELSE SubSeq(all, 1, Max(lines, 0))

\* f.readlines()[-lines:]  (a slice from -lines: the whole list when lines is
\* 0 or at least its length, the list without its first -lines when negative)
LastLines(all, lines) ==
    IF lines = 0 \/ lines >= Len(all) THEN all
    ELSE IF lines > 0 THEN SubSeq(all, Len(all) - lines + 1, Len(all))
    ELSE SubSeq(all, 1 - lines, Len(all))

----------------------------------------------------------------------------
(* Replies: the literal template a reply uses (kind) and the values        *)
(* interpolated into it.                                                   *)

\* how an optional timestamp is shown: "Never", or its strftime text (at)
NotShown == [never |-> FALSE, at |-> None]

\* (a plausible slip: a truthiness test that takes the epoch for "absent")
render_time_falsy(t) ==
    IF t > 0 THEN [never |-> FALSE, at |-> t] ELSE [never |-> TRUE, at |-> None]

\* if self.last_login_time: ...strftime(...) else: "Never"
render_time(t) ==
    IF t # None THEN [never |-> FALSE, at |-> t] ELSE [never |-> TRUE, at |-> None]

\* '🟢 Active' if self.is_monitoring else '🔴 Inactive'
monitoring_label(flag) == IF flag THEN "Active" ELSE "Inactive"

\* '🟢 Running' if self.is_monitoring else '🔴 Stopped'
running_label(flag) == IF flag THEN "Running" ELSE "Stopped"

Reply(kind, mode) ==
    [kind |-> kind, parse_mode |-> mode, monitoring |-> "",
     uptime |-> NoUptime, chat_id |-> 0, last_login |-> NotShown,
     last_fetch |-> NotShown, otp_count |-> None, n_lines |-> 0, lines |-> <<>>]

Unauthorized == Reply("unauthorized", "plain")
InvalidNumber == Reply("invalid_number", "plain")
LogNotFound == Reply("log_not_found", "plain")
LogEmpty == Reply("log_empty", "plain")
Hint == Reply("hint", "MARKDOWN_V2")

NoUpdate == [handler |-> "none", chat_id |-> 0, args |-> <<>>]
NoText == Reply("", "")

----------------------------------------------------------------------------
(* Inputs the handlers are tried on *)

\* context.args: no argument, or strings that int() accepts or rejects
\* ("0", "1", "2", "100", "101", "500", "-5", "+7", "abc", "-").
ArgStrings ==
    { <<48>>, <<49>>, <<50>>, <<49, 48, 48>>, <<49, 48, 49>>,
      <<53, 48, 48>>, <<45, 53>>, <<43, 55>>, <<97, 98, 99>>, <<45>> }

ArgLists == {<<>>} \cup {<<a>> : a \in ArgStrings} \cup {<<<<50>>, <<97, 98, 99>>>>}

\* The log file: missing, or present with lines 1..n (a line is its number).
LogFiles ==
    {[exists |-> FALSE, lines |-> <<>>]} \cup
    {[exists |-> TRUE, lines |-> [i \in 1..n |-> i]] : n \in 0..MaxLogLines}

\* Admin lists <<1>>, <<1, 2>>, ... and the empty list.
AdminPrefixes == {[i \in 1..n |-> i] : n \in 0..Min(MaxAdmins, MaxChatId)}

\* arg: the argument of the call; for get_otp_count the count it returned
\* (None while it has not returned)
Call(name, arg) == [name |-> name, arg |-> arg]

\* counts the storage collaborator returns
OtpCounts == (0..MaxOtpCount) \cup {7}

----------------------------------------------------------------------------
(* Command handlers *)

Idle == pc # "await_storage"

Ended(replyFails) == IF replyFails THEN "raised" ELSE "returned"
Raised(replyFails) == IF replyFails THEN "reply_text" ELSE "none"

\* (plausible slips: one side of the clamp forgotten)
ClampNoLower(n) == Min(n, MaxLines)
ClampNoUpper(n) == Max(MinLines, n)

ClampLines(n) == Max(MinLines, Min(n, MaxLines))

\* (a plausible slip: /start taken to switch monitoring on)
start_command_starts(chat_id, replyFails) ==
    /\ Idle
    /\ update' = [handler |-> "start", chat_id |-> chat_id, args |-> <<>>]
    /\ replies' =
         IF ~is_admin(chat_id) THEN <<Unauthorized>>
         ELSE <<[Reply("start", "MARKDOWN_V2") EXCEPT
                    !.monitoring = running_label(TRUE),
                    !.uptime = _get_uptime,
                    !.chat_id = chat_id]>>
    /\ is_monitoring' = (is_monitoring \/ is_admin(chat_id))
    /\ pc' = Ended(replyFails)
    /\ exc' = Raised(replyFails)
    /\ calls' = <<>>
    /\ status_text' = NoText
    /\ UNCHANGED <<config, start_time, last_login_time, last_fetch_time, now,
                   log_file, notifyVars>>

start_command(chat_id, replyFails) ==
    /\ Idle
    /\ update' = [handler |-> "start", chat_id |-> chat_id, args |-> <<>>]
    /\ replies' =
         IF ~is_admin(chat_id) THEN <<Unauthorized>>
         ELSE <<[Reply("start", "MARKDOWN_V2") EXCEPT
                    !.monitoring = running_label(is_monitoring),
                    !.uptime = _get_uptime,
                    !.chat_id = chat_id]>>
    /\ pc' = Ended(replyFails)
    /\ exc' = Raised(replyFails)
    /\ calls' = <<>>
    /\ status_text' = NoText
    /\ UNCHANGED <<config, botState, now, log_file, notifyVars>>

\* status_command up to "await self.storage.get_otp_count()"
status_command(chat_id, replyFails) ==
    /\ Idle
    /\ update' = [handler |-> "status", chat_id |-> chat_id, args |-> <<>>]
    /\ IF ~is_admin(chat_id)
       THEN /\ replies' = <<Unauthorized>>
            /\ pc' = Ended(replyFails)
            /\ exc' = Raised(replyFails)
            /\ calls' = <<>>
            /\ status_text' = NoText
       ELSE /\ replies' = <<>>
            /\ status_text' = [Reply("status", "MARKDOWN_V2") EXCEPT
                                  !.monitoring = monitoring_label(is_monitoring),
                                  !.uptime = _get_uptime,
                                  !.last_login = render_time(last_login_time),
                                  !.last_fetch = render_time(last_fetch_time)]
            /\ calls' = <<Call("get_otp_count", None)>>
            /\ pc' = "await_storage"
            /\ exc' = "none"
    /\ UNCHANGED <<config, botState, now, log_file, notifyVars>>

\* (a plausible slip: the text is sent before and after the count is added)
status_command_resume_twice(otp_count, replyFails) ==
    /\ pc = "await_storage"
    /\ replies' = <<status_text, [status_text EXCEPT !.otp_count = otp_count]>>
    /\ status_text' = [status_text EXCEPT !.otp_count = otp_count]
    /\ calls' = <<Call("get_otp_count", otp_count)>>
    /\ pc' = Ended(replyFails)
    /\ exc' = Raised(replyFails)
    /\ UNCHANGED <<update, config, botState, now, log_file, notifyVars>>

\* (a plausible slip: the last fetch is read again after the count arrives)
status_command_resume_rereads(otp_count, replyFails) ==
    /\ pc = "await_storage"
    /\ replies' = <<[status_text EXCEPT
                        !.otp_count = otp_count,
                        !.last_fetch = render_time(last_fetch_time)]>>
    /\ status_text' = [status_text EXCEPT !.otp_count = otp_count]
    /\ calls' = <<Call("get_otp_count", otp_count)>>
    /\ pc' = Ended(replyFails)
    /\ exc' = Raised(replyFails)
    /\ UNCHANGED <<update, config, botState, now, log_file, notifyVars>>

\* get_otp_count() returned otp_count: the rest of status_command
status_command_resume(otp_count, replyFails) ==
    /\ pc = "await_storage"
    /\ replies' = <<[status_text EXCEPT !.otp_count = otp_count]>>
    /\ status_text' = [status_text EXCEPT !.otp_count = otp_count]
    /\ calls' = <<Call("get_otp_count", otp_count)>>
    /\ pc' = Ended(replyFails)
    /\ exc' = Raised(replyFails)
    /\ UNCHANGED <<update, config, botState, now, log_file, notifyVars>>

\* get_otp_count() raised: nothing in status_command catches it
status_command_storage_raises ==
    /\ pc = "await_storage"
    /\ pc' = "raised"
    /\ exc' = "get_otp_count"
    /\ UNCHANGED <<update, replies, status_text, calls, config, botState, now,
                   log_file, notifyVars>>

logs_command(chat_id, args, openFails, replyFails) ==
    LET parsed == int(args[1])
        lines == IF args = <<>> THEN DefaultLines ELSE ClampLines(parsed.value)
        log_lines == LastLines(log_file.lines, lines)
    IN
    /\ Idle
    /\ update' = [handler |-> "logs", chat_id |-> chat_id, args |-> args]
    /\ status_text' = NoText
    /\ IF ~is_admin(chat_id)
       THEN /\ replies' = <<Unauthorized>>
            /\ calls' = <<>>
            /\ pc' = Ended(replyFails)
            /\ exc' = Raised(replyFails)
       ELSE IF args # <<>> /\ ~parsed.ok
       THEN /\ replies' = <<InvalidNumber>>
            /\ calls' = <<>>
            /\ pc' = Ended(replyFails)
            /\ exc' = Raised(replyFails)
       ELSE IF ~log_file.exists
       THEN /\ replies' = <<LogNotFound>>
            /\ calls' = <<Call("exists", 0)>>
            /\ pc' = Ended(replyFails)
            /\ exc' = Raised(replyFails)
       ELSE IF openFails
       THEN /\ replies' = <<>>
            /\ calls' = <<Call("exists", 0), Call("open", 0)>>
            /\ pc' = "raised"
            /\ exc' = "open"
       ELSE /\ calls' = <<Call("exists", 0), Call("open", 0),
                          Call("readlines", lines)>>
            /\ replies' =
                 IF log_lines = <<>> THEN <<LogEmpty>>
                 ELSE <<[Reply("logs", "MARKDOWN_V2") EXCEPT
                            !.n_lines = Len(log_lines),
                            !.lines = log_lines]>>
            /\ pc' = Ended(replyFails)
            /\ exc' = Raised(replyFails)
    /\ UNCHANGED <<config, botState, now, log_file, notifyVars>>

handle_message(chat_id, replyFails) ==
    /\ Idle
    /\ update' = [handler |-> "text", chat_id |-> chat_id, args |-> <<>>]
    /\ status_text' = NoText
    /\ calls' = <<>>
    /\ IF ~is_admin(chat_id)
       THEN /\ replies' = <<>>
            /\ pc' = "returned"
            /\ exc' = "none"
       ELSE /\ replies' = <<Hint>>
            /\ pc' = Ended(replyFails)
            /\ exc' = Raised(replyFails)
    /\ UNCHANGED <<config, botState, now, log_file, notifyVars>>

----------------------------------------------------------------------------
(* The monitor collaborator writes the bot's status attributes; time passes *)

monitor_set_monitoring(flag) ==
    /\ is_monitoring # flag
    /\ is_monitoring' = flag
    /\ UNCHANGED <<start_time, last_login_time, last_fetch_time, config, now,
                   log_file, routerVars, notifyVars>>

monitor_on_login ==
    /\ last_login_time # now
    /\ last_login_time' = now
    /\ UNCHANGED <<start_time, is_monitoring, last_fetch_time, config, now,
                   log_file, routerVars, notifyVars>>

monitor_on_fetch ==
    /\ last_fetch_time # now
    /\ last_fetch_time' = now
    /\ UNCHANGED <<start_time, is_monitoring, last_login_time, config, now,
                   log_file, routerVars, notifyVars>>

\* the clock reaches t
time_passes(t) ==
    /\ t > now
    /\ now' = t
    /\ UNCHANGED <<config, botState, log_file, routerVars, notifyVars>>

Tick ==
    /\ now + TickSeconds <= MaxNow * TickSeconds
    /\ now' = now + TickSeconds
    /\ UNCHANGED <<config, botState, log_file, routerVars, notifyVars>>

----------------------------------------------------------------------------
(* Text helpers *)

\* special_chars, in the order of the list: _ * [ ] ( ) ~ ` > # + - = | { } . !
special_chars ==
    <<95, 42, 91, 93, 40, 41, 126, 96, 62, 35, 43, 45, 61, 124, 123, 125, 46, 33>>

Backslash == <<92>>

\* (a plausible slip: only the first occurrence is replaced)
replace_first(text, char) ==
    IF \A i \in DOMAIN text : text[i] # char THEN text
    ELSE LET first == CHOOSE i \in DOMAIN text :
                         text[i] = char /\ \A j \in 1..(i - 1) : text[j] # char
         IN  SubSeq(text, 1, first - 1) \o Backslash \o <<char>>
                 \o SubSeq(text, first + 1, Len(text))

\* text.replace(char, "\\" + char)
RECURSIVE replace(_, _)
replace(text, char) ==
    IF \A i \in DOMAIN text : text[i] # char THEN text
    ELSE (IF Head(text) = char THEN Backslash \o <<char>> ELSE <<Head(text)>>)
         \o replace(Tail(text), char)

RECURSIVE escape_loop(_, _)
escape_loop(text, k) ==
    IF k > Len(special_chars) THEN text
    ELSE escape_loop(replace(text, special_chars[k]), k + 1)

escape_markdown(text) == escape_loop(text, 1)

\* traceback.format_exc() of length n: letters, the i-th one fixed by i
format_exc(n) == [i \in 1..n |-> 97 + (i % 26)]

Ellipsis == <<46, 46, 46>>

\* (a plausible slip: the limit compared with >=)
truncate_at_limit(stack_trace) ==
    IF Len(stack_trace) >= TraceLimit
    THEN SubSeq(stack_trace, 1, TraceLimit) \o Ellipsis
    ELSE stack_trace

\* if len(stack_trace) > 500: stack_trace = stack_trace[:500] + "..."
truncate(stack_trace) ==
    IF Len(stack_trace) > TraceLimit
    THEN SubSeq(stack_trace, 1, TraceLimit) \o Ellipsis
    ELSE stack_trace

ErrorHead == <<10060, 32, 42, 69, 114, 114, 111, 114, 42, 10, 10, 96>>
ErrorTail == <<96>>
TraceOpen == <<10, 10, 96, 96, 96, 10>>
TraceClose == <<10, 96, 96, 96>>
CrossMark == <<10060>>
InfoMark == <<8505, 65039>>
Space == <<32>>

----------------------------------------------------------------------------
(* Notifications *)

Logged(event, chat_id) == [event |-> event, chat_id |-> chat_id]
Outcome(result, sent, log) == [result |-> result, attempts |-> sent, logged |-> log]

\* (a plausible slip: the try around the loop instead of inside it, so the
\* first failing delivery ends the loop)
RECURSIVE send_loop_abort(_, _, _, _)
send_loop_abort(i, message, fails, acc) ==
    IF i > Len(admin_chat_ids) THEN acc
    ELSE LET sent == Append(acc.attempts,
                 [chat_id |-> admin_chat_ids[i], text |-> message,
                  ok |-> i \notin fails])
         IN  IF i \in fails
             THEN Outcome("returned", sent,
                          Append(acc.logged, Logged("send_failed", admin_chat_ids[i])))
             ELSE send_loop_abort(i + 1, message, fails,
                                  Outcome("returned", sent, acc.logged))

\* for chat_id in self.admin_chat_ids: try: send_message(...) except: log
\* (fails: the positions of the list whose delivery raises)
RECURSIVE send_loop(_, _, _, _)
send_loop(i, message, fails, acc) ==
    IF i > Len(admin_chat_ids) THEN acc
    ELSE send_loop(i + 1, message, fails,
            Outcome("returned",
                    Append(acc.attempts,
                           [chat_id |-> admin_chat_ids[i], text |-> message,
                            ok |-> i \notin fails]),
                    IF i \in fails
                    THEN Append(acc.logged, Logged("send_failed", admin_chat_ids[i]))
                    ELSE acc.logged))

\* (a plausible slip: no check that the application exists)
broadcast_unguarded(message, fails) ==
    send_loop(1, message, fails, Outcome("returned", <<>>, <<>>))

\* the body of send_admin_message: what it sends and logs, and how it ends
broadcast(message, fails) ==
    IF ~application
    THEN Outcome("returned", <<>>, <<Logged("not_initialized", 0)>>)
    ELSE send_loop(1, message, fails, Outcome("returned", <<>>, <<>>))

\* the sets of list positions whose delivery may raise
Positions == SUBSET (1..Len(admin_chat_ids))

Op(name, result, fails, text, n) ==
    [name |-> name, result |-> result, fails |-> fails, text |-> text,
     trace_len |-> n]

NoOp == Op("none", "none", {}, <<>>, 0)

send_admin_message(message, fails) ==
    LET out == broadcast(message, fails)
    IN  /\ op' = Op("send_admin_message", out.result, fails, message, 0)
        /\ error_msg' = message
        /\ attempts' = out.attempts
        /\ logged' = out.logged
        /\ UNCHANGED <<config, botState, now, log_file, routerVars>>

send_status_message(message, is_error, fails) ==
    LET emoji == IF is_error THEN CrossMark ELSE InfoMark
        formatted_message == emoji \o Space \o escape_markdown(message)
        out == broadcast(formatted_message, fails)
    IN  /\ op' = Op("send_status_message", out.result, fails, message, 0)
        /\ error_msg' = formatted_message
        /\ attempts' = out.attempts
        /\ logged' = out.logged
        /\ UNCHANGED <<config, botState, now, log_file, routerVars>>

\* the report send_error_message builds from str(error) and the trace
error_report(error, stack_trace) ==
    ErrorHead \o escape_markdown(error) \o ErrorTail
        \o TraceOpen \o truncate(stack_trace) \o TraceClose

\* (a plausible slip: no try/except around the body)
send_error_message_unguarded(error, strFails, n, fails) ==
    LET out == broadcast(error_report(error, format_exc(n)), fails)
    IN  /\ IF strFails
           THEN /\ op' = Op("send_error_message", "raised", fails, error, n)
                /\ error_msg' = <<>>
                /\ attempts' = <<>>
                /\ logged' = <<>>
           ELSE /\ op' = Op("send_error_message", out.result, fails, error, n)
                /\ error_msg' = error_report(error, format_exc(n))
                /\ attempts' = out.attempts
                /\ logged' = out.logged
        /\ UNCHANGED <<config, botState, now, log_file, routerVars>>

\* error: str(error); strFails: str(error) raises; n: the length of the trace
send_error_message(error, strFails, n, fails) ==
    LET out == broadcast(error_report(error, format_exc(n)), fails)
    IN  /\ IF strFails
           THEN /\ op' = Op("send_error_message", "returned", fails, error, n)
                /\ error_msg' = <<>>
                /\ attempts' = <<>>
                /\ logged' = <<Logged("send_error_failed", 0)>>
           ELSE /\ op' = Op("send_error_message", out.result, fails, error, n)
                /\ error_msg' = error_report(error, format_exc(n))
                /\ attempts' = out.attempts
                /\ logged' = out.logged
        /\ UNCHANGED <<config, botState, now, log_file, routerVars>>

----------------------------------------------------------------------------
(* run *)

\* "Bot started"
BotStarted == <<66, 111, 116, 32, 115, 116, 97, 114, 116, 101, 100>>

\* str() of the AttributeError of None.run_polling:
\* "'NoneType' object has no attribute 'run_polling'"
NoPollingAttr ==
    <<39, 78, 111, 110, 101, 84, 121, 112, 101, 39, 32, 111, 98, 106, 101, 99,
      116, 32, 104, 97, 115, 32, 110, 111, 32, 97, 116, 116, 114, 105, 98, 117,
      116, 101, 32, 39, 114, 117, 110, 95, 112, 111, 108, 108, 105, 110, 103,
      39>>

Polling == op.name = "run" /\ op.result = "polling"

\* the except clause of run: logger.error, send_error_message(e, ...), raise
\* (sent, log: what run has sent and logged so far; the exceptions that reach
\* the clause are the library's and the interpreter's, whose str() works)
run_except(error, n, fails, sent, log) ==
    LET out == broadcast(error_report(error, format_exc(n)), fails)
    IN  Outcome("raised", sent \o out.attempts,
                log \o <<Logged("run_error", 0)>> \o out.logged)

\* run up to "await self.application.run_polling()". Without an application
\* the attribute lookup on None raises at once and run goes through its
\* except clause in the same step. (fails, failsReport: the positions whose
\* delivery raises, for the two broadcasts; n: the length of the trace)
run(fails, n, failsReport) ==
    LET formatted_message == InfoMark \o Space \o escape_markdown(BotStarted)
        started == broadcast(formatted_message, fails)
        log == <<Logged("run_starting", 0)>> \o started.logged
        out == run_except(NoPollingAttr, n, failsReport, started.attempts, log)
    IN  /\ ~Polling
        /\ IF application
           THEN /\ op' = Op("run", "polling", fails, <<>>, 0)
                /\ error_msg' = formatted_message
                /\ attempts' = started.attempts
                /\ logged' = log
           ELSE /\ op' = Op("run", out.result, failsReport, NoPollingAttr, n)
                /\ error_msg' = error_report(NoPollingAttr, format_exc(n))
                /\ attempts' = out.attempts
                /\ logged' = out.logged
        /\ UNCHANGED <<config, botState, now, log_file, routerVars>>

\* run_polling() raises an exception whose str() is error
run_polling_raises(error, n, fails) ==
    LET out == run_except(error, n, fails, attempts, logged)
    IN  /\ Polling
        /\ op' = Op("run", out.result, fails, error, n)
        /\ error_msg' = error_report(error, format_exc(n))
        /\ attempts' = out.attempts
        /\ logged' = out.logged
        /\ UNCHANGED <<config, botState, now, log_file, routerVars>>

\* the await on run_polling() completes without an exception
run_polling_returns ==
    /\ Polling
    /\ op' = [op EXCEPT !.result = "returned"]
    /\ UNCHANGED <<error_msg, attempts, logged, config, botState, now,
                   log_file, routerVars>>

----------------------------------------------------------------------------
(* initialize *)

\* the add_handler calls of initialize, in order: command and bound method
\* ("text" stands for the MessageHandler of non-command text)
Registrations ==
    << <<"start", "start_command">>, <<"status", "status_command">>,
       <<"config", "config_command">>, <<"info", "info_command">>,
       <<"recent_otps", "recent_otps_command">>,
       <<"last_otp", "last_otp_command">>, <<"new_otp", "new_otp_command">>,
       <<"restart", "restart_command">>, <<"stop", "stop_command">>,
       <<"start_monitor", "start_monitor_command">>,
       <<"logs", "logs_command">>, <<"text", "handle_message">> >>

\* the handler methods the class defines
Methods == {"start_command", "status_command", "logs_command", "handle_message"}

\* the registrations made before the first self.<method> that does not exist
RECURSIVE add_handlers(_, _)
add_handlers(k, done) ==
    IF k > Len(Registrations) \/ Registrations[k][2] \notin Methods THEN done
    ELSE add_handlers(k + 1, Append(done, Registrations[k][1]))

\* buildFails: ApplicationBuilder().token(...).build() raises
initialize(buildFails) ==
    LET done == add_handlers(1, <<>>)
        ok == ~buildFails /\ Len(done) = Len(Registrations)
    IN  /\ Idle
        /\ application' = IF buildFails THEN application ELSE TRUE
        /\ registered' = IF buildFails THEN registered ELSE done
        /\ op' = Op("initialize", IF ok THEN "returned" ELSE "raised", {}, <<>>, 0)
        /\ error_msg' = <<>>
        /\ attempts' = <<>>
        /\ logged' = IF ok THEN <<>> ELSE <<Logged("initialize_failed", 0)>>
        /\ UNCHANGED <<admin_chat_ids, botState, now, log_file, routerVars>>

----------------------------------------------------------------------------
(* The router: updates handled one after another on a constructed bot *)

Constructed ==
    /\ application = FALSE
    /\ registered = <<>>
    /\ start_time = 0
    /\ now = 0
    /\ is_monitoring = FALSE
    /\ last_login_time = None
    /\ last_fetch_time = None
    /\ update = NoUpdate
    /\ pc = "idle"
    /\ exc = "none"
    /\ status_text = NoText
    /\ replies = <<>>
    /\ calls = <<>>
    /\ op = NoOp
    /\ error_msg = <<>>
    /\ attempts = <<>>
    /\ logged = <<>>

Init ==
    /\ Constructed
    /\ admin_chat_ids \in AdminPrefixes
    /\ log_file \in LogFiles

Next ==
    \/ \E c \in ChatIds, f \in BOOLEAN : start_command(c, f)
    \/ \E c \in ChatIds, f \in BOOLEAN : status_command(c, f)
    \/ \E n \in OtpCounts, f \in BOOLEAN : status_command_resume(n, f)
    \/ status_command_storage_raises
    \/ \E c \in ChatIds, a \in ArgLists, o \in BOOLEAN, f \in BOOLEAN :
          logs_command(c, a, o, f)
    \/ \E c \in ChatIds, f \in BOOLEAN : handle_message(c, f)
    \/ \E b \in BOOLEAN : monitor_set_monitoring(b)

Spec == Init /\ [][Next]_vars

----------------------------------------------------------------------------
(* Status requests while the monitor writes the status attributes and time *)
(* passes                                                                  *)

StatusAdminLists == {<<1>>, <<1, 2>>}

InitStatus ==
    /\ Constructed
    /\ admin_chat_ids \in StatusAdminLists
    /\ log_file = [exists |-> FALSE, lines |-> <<>>]

NextStatus ==
    \/ \E c \in ChatIds, f \in BOOLEAN : status_command(c, f)
    \/ \E n \in OtpCounts, f \in BOOLEAN : status_command_resume(n, f)
    \/ status_command_storage_raises
    \/ \E b \in BOOLEAN : monitor_set_monitoring(b)
    \/ monitor_on_login
    \/ monitor_on_fetch
    \/ Tick

SpecStatus == InitStatus /\ [][NextStatus]_vars

\* What runs whenever it can: the event loop dispatches the next update once
\* no handler is in flight, the monitor's task runs and the clock advances.
\* When the storage collaborator completes get_otp_count() is not the bot's
\* to decide, and nothing in status_command bounds the wait.
Scheduled ==
    \/ \E c \in ChatIds, f \in BOOLEAN : status_command(c, f)
    \/ \E b \in BOOLEAN : monitor_set_monitoring(b)
    \/ monitor_on_login
    \/ monitor_on_fetch
    \/ Tick

SpecStall == InitStatus /\ [][NextStatus]_vars /\ WF_vars(Scheduled)

----------------------------------------------------------------------------
(* The uptime shown by /start as time passes *)

\* elapsed seconds at and next to the unit boundaries
ElapsedSamples ==
    {d * 86400 + h * 3600 + m * 60 + sec :
        d \in 0..MaxDays, h \in {0, 1, 23}, m \in {0, 1, 59}, sec \in {0, 59}}

InitUptime ==
    /\ Constructed
    /\ admin_chat_ids = <<1>>
    /\ log_file = [exists |-> FALSE, lines |-> <<>>]

NextUptime ==
    \/ \E t \in ElapsedSamples : time_passes(t)
    \/ \E c \in ChatIds, f \in BOOLEAN : start_command(c, f)

SpecUptime == InitUptime /\ [][NextUptime]_vars

----------------------------------------------------------------------------
(* escape_markdown on the texts send_status_message is given *)

\* two reserved characters (the first and a late one of the list), the
\* escape character itself and a newline: _ . \ \n
EscapeAlphabet == {95, 46, 92, 10}

EscapeTexts ==
    UNION {[1..n -> EscapeAlphabet] : n \in 0..MaxTextLen}

InitEscape ==
    /\ Constructed
    /\ admin_chat_ids = <<1>>
    /\ log_file = [exists |-> FALSE, lines |-> <<>>]

NextEscape ==
    \/ \E b \in BOOLEAN : initialize(b)
    \/ \E m \in EscapeTexts : send_status_message(m, FALSE, {})

SpecEscape == InitEscape /\ [][NextEscape]_vars

----------------------------------------------------------------------------
(* Everything together on one admin: the handlers, the notifications and   *)
(* the monitor's writes                                                    *)

FrameSenders == {1, MaxChatId + 1}
FrameArgs == {<<>>, <<<<97, 98, 99>>>>}
FrameMessage == <<97, 46, 98>>

InitFrame ==
    /\ Constructed
    /\ admin_chat_ids = <<1>>
    /\ log_file = [exists |-> TRUE, lines |-> [i \in 1..MaxLogLines |-> i]]

NextFrame ==
    \/ \E c \in FrameSenders, f \in BOOLEAN : start_command(c, f)
    \/ \E c \in FrameSenders, f \in BOOLEAN : status_command(c, f)
    \/ \E f \in BOOLEAN : status_command_resume(0, f)
    \/ status_command_storage_raises
    \/ \E c \in FrameSenders, a \in FrameArgs, o \in BOOLEAN, f \in BOOLEAN :
          logs_command(c, a, o, f)
    \/ \E c \in FrameSenders, f \in BOOLEAN : handle_message(c, f)
    \/ \E b \in BOOLEAN : initialize(b)
    \/ \E f \in Positions : send_admin_message(FrameMessage, f)
    \/ \E e \in BOOLEAN, f \in Positions : send_status_message(FrameMessage, e, f)
    \/ \E x \in BOOLEAN, f \in Positions :
          send_error_message(FrameMessage, x, 0, f)
    \/ \E b \in BOOLEAN : monitor_set_monitoring(b)
    \/ monitor_on_login
    \/ monitor_on_fetch

SpecFrame == InitFrame /\ [][NextFrame]_vars

----------------------------------------------------------------------------
(* The notifier: notifications pushed into a constructed bot, before and   *)
(* after initialize                                                        *)

\* admin lists <<1>>, <<1, 2>>, ... and <<2, 1>>, <<2, 1, 2>>, ... (an id twice)
NotifyAdminLists ==
    AdminPrefixes \cup {[i \in 1..n |-> 1 + (i % 2)] : n \in 2..MaxAdmins}

\* message texts: "ok", "a.b"
Messages == {<<111, 107>>, <<97, 46, 98>>}

\* trace lengths around the limit
TraceLens == {0, 1, TraceLimit - 1, TraceLimit, TraceLimit + 1, 2 * TraceLimit}

InitNotify ==
    /\ Constructed
    /\ admin_chat_ids \in NotifyAdminLists
    /\ log_file = [exists |-> FALSE, lines |-> <<>>]

NextNotify ==
    \/ \E b \in BOOLEAN : initialize(b)
    \/ \E m \in Messages, f \in Positions : send_admin_message(m, f)
    \/ \E m \in Messages, e \in BOOLEAN, f \in Positions :
          send_status_message(m, e, f)
    \/ \E m \in Messages, s \in BOOLEAN, n \in 0..MaxShortTrace, f \in Positions :
          send_error_message(m, s, n, f)

SpecNotify == InitNotify /\ [][NextNotify]_vars

----------------------------------------------------------------------------
(* run, before and after initialize, next to the notifications (the record *)
(* of the last operation follows one operation at a time, so the others    *)
(* are taken while run is not inside run_polling; run uses the trace only  *)
(* without an application and the first broadcast's failures only with one)*)

InitRun ==
    /\ Constructed
    /\ admin_chat_ids \in AdminPrefixes
    /\ log_file = [exists |-> FALSE, lines |-> <<>>]

NextRun ==
    \/ ~Polling /\ \E b \in BOOLEAN : initialize(b)
    \/ application /\ \E f \in Positions : run(f, 0, {})
    \/ ~application /\ \E n \in 0..MaxShortTrace : run({}, n, {})
    \/ \E e \in Messages, n \in 0..MaxShortTrace, f \in Positions :
          run_polling_raises(e, n, f)
    \/ run_polling_returns
    \/ ~Polling /\ \E m \in Messages, f \in Positions : send_admin_message(m, f)
    \/ ~Polling /\ \E m \in Messages, e \in BOOLEAN, f \in Positions :
          send_status_message(m, e, f)
    \/ ~Polling /\ \E m \in Messages, x \in BOOLEAN, f \in Positions :
          send_error_message(m, x, 0, f)

SpecRun == InitRun /\ [][NextRun]_vars

----------------------------------------------------------------------------
(* The error notifier on traces around the limit: every delivery succeeds  *)
(* or every delivery fails                                                 *)

InitTrace ==
    /\ Constructed
    /\ admin_chat_ids \in AdminPrefixes
    /\ log_file = [exists |-> FALSE, lines |-> <<>>]

NextTrace ==
    \/ \E b \in BOOLEAN : initialize(b)
    \/ \E m \in Messages, s \in BOOLEAN, n \in TraceLens,
          f \in {{}, 1..Len(admin_chat_ids)} :
          send_error_message(m, s, n, f)

SpecTrace == InitTrace /\ [][NextTrace]_vars

----------------------------------------------------------------------------
(* Properties of the router *)

InAdminSet(chat_id) == chat_id \in {admin_chat_ids[i] : i \in DOMAIN admin_chat_ids}
Finished == pc \in {"returned", "raised"}
Reads == {i \in DOMAIN calls : calls[i].name = "readlines"}
Numeric(args) == args # <<>> /\ int(args[1]).ok
OutOfRange(args) == Numeric(args) /\ int(args[1]).value \notin MinLines..MaxLines

\* C1: for start, status and logs from a sender outside the admin set, the
\* handler makes exactly one reply, the unauthorized message (which carries no
\* status or log value), and calls neither the storage collaborator nor the
\* log file.
AuthGateRejects ==
    (update.handler \in {"start", "status", "logs"} /\ ~InAdminSet(update.chat_id))
        => /\ Finished
           /\ replies = <<Unauthorized>>
           /\ calls = <<>>

AuthGateRejectsWitness ==
    /\ update.handler = "logs"
    /\ ~InAdminSet(update.chat_id)
    /\ admin_chat_ids # <<>>
    /\ log_file.exists /\ log_file.lines # <<>>
    /\ replies = <<Unauthorized>>

\* C2: a non-command text message from a sender outside the admin set gets the
\* unauthorized reply.
TextFromStrangerRejected ==
    (update.handler = "text" /\ ~InAdminSet(update.chat_id) /\ Finished)
        => replies = <<Unauthorized>>

\* C4: on every path of every handler at most one reply is made for the
\* update, and an authorized update whose handler returns normally has
\* exactly one.
AtMostOneReply ==
    /\ Len(replies) <= 1
    /\ (pc = "returned" /\ InAdminSet(update.chat_id)) => Len(replies) = 1

AtMostOneReplyWitness ==
    /\ update.handler = "status"
    /\ InAdminSet(update.chat_id)
    /\ pc = "returned"
    /\ Len(replies) = 1
    /\ replies[1].kind = "status"

\* C5: when an authorized command fails before it has replied (the storage
\* count call or the log file read raised), a generic error reply goes to the
\* requester and the failure is broadcast through send_error_message.
HandlerErrorReported ==
    (pc = "raised" /\ InAdminSet(update.chat_id)
        /\ exc \in {"get_otp_count", "open"})
        => /\ \E i \in DOMAIN replies : replies[i].kind = "error"
           /\ op.name = "send_error_message"

\* C6: an authorized status request whose storage count call fails still
\* replies with the status snapshot.
StatusDegradesOnStorageFailure ==
    (update.handler = "status" /\ InAdminSet(update.chat_id)
        /\ exc = "get_otp_count")
        => /\ Len(replies) = 1
           /\ replies[1].kind = "status"
           /\ replies[1].monitoring = status_text.monitoring
           /\ replies[1].last_login = status_text.last_login

\* C9: for logs from an admin, with no argument 20 lines are asked of the
\* log reader; a non-numeric argument gets the format-error reply and the log
\* file is not touched; every count that reaches the reader is in 1..100.
LogsLineCount ==
    (update.handler = "logs" /\ InAdminSet(update.chat_id))
        => /\ \A i \in Reads : calls[i].arg \in MinLines..MaxLines
           /\ update.args = <<>> => \A i \in Reads : calls[i].arg = DefaultLines
           /\ (update.args # <<>> /\ ~Numeric(update.args))
                 => (replies = <<InvalidNumber>> /\ calls = <<>>)

LogsLineCountWitness ==
    /\ update.handler = "logs"
    /\ InAdminSet(update.chat_id)
    /\ update.args = <<<<45, 53>>>>
    /\ Reads # {}
    /\ \A i \in Reads : calls[i].arg = MinLines

\* C10 as claimed: a numeric logs argument outside 1..100 gets the
\* format-error reply and the log file is not touched.
OutOfRangeRejected ==
    (update.handler = "logs" /\ InAdminSet(update.chat_id)
        /\ OutOfRange(update.args) /\ Finished)
        => (replies = <<InvalidNumber>> /\ calls = <<>>)

\* C10 amended: a numeric logs argument outside 1..100 is not rejected: the
\* handler goes on to the log file, and the count the reader gets is 1 for an
\* argument below 1 and 100 for an argument above 100.
OutOfRangeClamped ==
    (update.handler = "logs" /\ InAdminSet(update.chat_id)
        /\ OutOfRange(update.args) /\ Finished)
        => /\ calls # <<>> /\ calls[1].name = "exists"
           /\ \A i \in DOMAIN replies : replies[i].kind # "invalid_number"
           /\ \A i \in Reads :
                 calls[i].arg = IF int(update.args[1]).value < MinLines
                                THEN MinLines ELSE MaxLines

OutOfRangeClampedWitness ==
    /\ update.handler = "logs"
    /\ InAdminSet(update.chat_id)
    /\ update.args = <<<<53, 48, 48>>>>
    /\ \E i \in Reads : calls[i].arg = MaxLines
    /\ Len(replies) = 1 /\ replies[1].kind = "logs"

\* the count logs_command works with: 20 without an argument, else the
\* argument brought into 1..100
EffectiveCount(args) ==
    IF args = <<>> THEN DefaultLines
    ELSE IF int(args[1]).value < MinLines THEN MinLines
    ELSE IF int(args[1]).value > MaxLines THEN MaxLines
    ELSE int(args[1]).value

\* C11: an authorized logs request with effective count n that gets to the
\* file replies "not found" when the file is missing, "empty" when it has no
\* line, and otherwise with the last min(n, total) lines of the file in file
\* order, stating min(n, total) as the number of lines.
LogTail ==
    (update.handler = "logs" /\ InAdminSet(update.chat_id)
        /\ (update.args = <<>> \/ Numeric(update.args))
        /\ Finished /\ exc # "open")
        => LET total == Len(log_file.lines)
               k == IF EffectiveCount(update.args) <= total
                    THEN EffectiveCount(update.args) ELSE total
           IN  /\ Len(replies) = 1
               /\ ~log_file.exists => replies[1] = LogNotFound
               /\ (log_file.exists /\ total = 0) => replies[1] = LogEmpty
               /\ (log_file.exists /\ total > 0)
                     => /\ replies[1].kind = "logs"
                        /\ replies[1].n_lines = k
                        /\ Len(replies[1].lines) = k
                        /\ \A i \in 1..k :
                              replies[1].lines[i] = log_file.lines[total - k + i]

LogTailWitness ==
    /\ update.handler = "logs"
    /\ InAdminSet(update.chat_id)
    /\ update.args = <<<<50>>>>
    /\ Len(log_file.lines) = 3
    /\ pc = "returned"
    /\ replies[1].lines = <<2, 3>>
    /\ replies[1].n_lines = 2

----------------------------------------------------------------------------
(* Properties of the notifier *)

NoDuplicates(s) == \A i, j \in DOMAIN s : s[i] = s[j] => i = j

\* C3: one send_admin_message on an initialized bot makes one delivery
\* attempt per entry of the admin list, in list order and with the message
\* (so exactly one per admin when no id is listed twice); an attempt succeeds
\* exactly when its own delivery does not fail, whatever failed before it;
\* and the call returns normally.
BroadcastReachesAll ==
    (op.name = "send_admin_message" /\ application)
        => /\ op.result = "returned"
           /\ Len(attempts) = Len(admin_chat_ids)
           /\ \A i \in DOMAIN attempts :
                 /\ attempts[i].chat_id = admin_chat_ids[i]
                 /\ attempts[i].text = op.text
                 /\ attempts[i].ok = (i \notin op.fails)
           /\ NoDuplicates(admin_chat_ids)
                 => \A i \in DOMAIN admin_chat_ids :
                       Cardinality({j \in DOMAIN attempts :
                                       attempts[j].chat_id = admin_chat_ids[i]}) = 1

BroadcastReachesAllWitness ==
    /\ op.name = "send_admin_message"
    /\ application
    /\ admin_chat_ids = <<1, 2, 3>>
    /\ op.fails = {2}
    /\ Len(attempts) = 3
    /\ attempts[1].ok /\ ~attempts[2].ok /\ attempts[3].ok

\* C7: send_error_message returns normally whatever happens inside it:
\* str(error) raising, every delivery failing, the bot not initialized.
ErrorNotifierNeverRaises ==
    op.name = "send_error_message" => op.result = "returned"

ErrorNotifierNeverRaisesWitness ==
    /\ op.name = "send_error_message"
    /\ application
    /\ op.result = "returned"
    /\ attempts = <<>>
    /\ logged = <<Logged("send_error_failed", 0)>>

\* the trace part of the outgoing report: what stands between the opening and
\* the closing code fence
TraceBlob ==
    LET before == Len(ErrorHead) + Len(escape_markdown(op.text)) + Len(ErrorTail)
                      + Len(TraceOpen)
    IN  SubSeq(error_msg, before + 1, Len(error_msg) - Len(TraceClose))

\* C8: in the report send_error_message sends, a trace longer than 500
\* characters appears as its first 500 characters followed by "...", and a
\* trace of at most 500 characters appears whole, with no marker.
TraceBounded ==
    (op.name = "send_error_message" /\ error_msg # <<>>)
        => /\ \A i \in DOMAIN attempts : attempts[i].text = error_msg
           /\ IF op.trace_len > TraceLimit
              THEN /\ Len(TraceBlob) = TraceLimit + Len(Ellipsis)
                   /\ \A i \in 1..TraceLimit : TraceBlob[i] = format_exc(op.trace_len)[i]
                   /\ \A i \in 1..Len(Ellipsis) : TraceBlob[TraceLimit + i] = Ellipsis[i]
              ELSE TraceBlob = format_exc(op.trace_len)

TraceBoundedWitness ==
    /\ op.name = "send_error_message"
    /\ op.trace_len = 2 * TraceLimit
    /\ attempts # <<>> /\ attempts[1].ok
    /\ Len(TraceBlob) = TraceLimit + Len(Ellipsis)

\* C12: once initialize has built the application, each command of the chat
\* surface (and non-command text) is registered with exactly one handler.
InitializeRegistersAll ==
    (op.name = "initialize" /\ application)
        => \A k \in DOMAIN Registrations :
              Cardinality({j \in DOMAIN registered :
                              registered[j] = Registrations[k][1]}) = 1

----------------------------------------------------------------------------
(* Properties of status requests *)

StatusBegins == pc # "await_storage" /\ pc' = "await_storage"
StatusReplies == pc = "await_storage" /\ pc' = "returned"

\* C13: the text an authorized status request builds shows Active exactly
\* when is_monitoring is true and Inactive otherwise, shows last login and
\* last fetch as "Never" exactly when the timestamp is absent and as the
\* timestamp otherwise; the reply that completes the request is that text with
\* the count the storage collaborator returned.
StatusRendering ==
    [][ /\ StatusBegins
          => /\ status_text'.kind = "status"
             /\ is_monitoring => status_text'.monitoring = "Active"
             /\ ~is_monitoring => status_text'.monitoring = "Inactive"
             /\ status_text'.last_login.never <=> last_login_time = None
             /\ status_text'.last_fetch.never <=> last_fetch_time = None
             /\ last_login_time # None
                   => status_text'.last_login.at = last_login_time
             /\ last_fetch_time # None
                   => status_text'.last_fetch.at = last_fetch_time
        /\ StatusReplies
          => /\ Len(replies') = 1
             /\ replies'[1].kind = "status"
             /\ replies'[1].otp_count = calls'[1].arg
             /\ replies'[1].monitoring = status_text.monitoring
             /\ replies'[1].last_login = status_text.last_login
             /\ replies'[1].last_fetch = status_text.last_fetch
      ]_vars

StatusRenderingWitness ==
    /\ update.handler = "status"
    /\ pc = "returned"
    /\ ~is_monitoring /\ last_login_time = None /\ last_fetch_time = None
    /\ calls = <<Call("get_otp_count", 7)>>
    /\ replies[1].monitoring = "Inactive"
    /\ replies[1].last_login.never /\ replies[1].last_fetch.never
    /\ replies[1].otp_count = 7

----------------------------------------------------------------------------
(* Properties of the uptime *)

Uptime(form, d, h, m) == [form |-> form, d |-> d, h |-> h, m |-> m]

\* C14: for s whole seconds since start_time, with d = s div 86400,
\* h = (s mod 86400) div 3600 and m = (s mod 3600) div 60, the uptime is
\* "{d}d {h}h {m}m" when d > 0, "{h}h {m}m" when d = 0 and h > 0, and "{m}m"
\* otherwise; 0s and 59s give "0m", 60s "1m", 3599s "59m", 3600s "1h 0m" and
\* 90000s "1d 1h 0m".
UptimeFormat ==
    LET s == now - start_time
        d == s \div 86400
        h == (s % 86400) \div 3600
        m == (s % 3600) \div 60
    IN  /\ s >= 0 /\ h \in 0..23 /\ m \in 0..59
        /\ d > 0 => _get_uptime = Uptime("dhm", d, h, m)
        /\ (d = 0 /\ h > 0) => _get_uptime = Uptime("hm", 0, h, m)
        /\ (d = 0 /\ h = 0) => _get_uptime = Uptime("m", 0, 0, m)
        /\ s \in {0, 59} => _get_uptime = Uptime("m", 0, 0, 0)
        /\ s = 60 => _get_uptime = Uptime("m", 0, 0, 1)
        /\ s = 3599 => _get_uptime = Uptime("m", 0, 0, 59)
        /\ s = 3600 => _get_uptime = Uptime("hm", 0, 1, 0)
        /\ s = 90000 => _get_uptime = Uptime("dhm", 1, 1, 0)
        /\ (update.handler = "start" /\ now = 0 /\ replies[1].kind = "start")
              => replies[1].uptime = Uptime("m", 0, 0, 0)

UptimeFormatWitness ==
    /\ now - start_time = 90000
    /\ update.handler = "start"
    /\ replies[1].kind = "start"
    /\ replies[1].uptime = Uptime("dhm", 1, 1, 0)

----------------------------------------------------------------------------
(* Properties of escape_markdown *)

Reserved == {special_chars[k] : k \in DOMAIN special_chars}

\* what send_status_message sent, after its emoji and the space
EscapedPart ==
    LET skip == IF error_msg[1] = CrossMark[1]
                THEN Len(CrossMark) + Len(Space) ELSE Len(InfoMark) + Len(Space)
    IN  SubSeq(error_msg, skip + 1, Len(error_msg))

\* the place in the output of the i-th character of text
PlaceOf(text, i) == i + Cardinality({j \in 1..i : text[j] \in Reserved})

\* C15: escape_markdown of a text (one with the escape character, the empty
\* one and one with newlines included) is the text with one escape character
\* put right before each reserved character: every character of the text
\* keeps its order, each reserved one is immediately preceded by the escape
\* character, nothing else is added, and the empty text gives the empty text.
EscapeSinglePass ==
    op.name = "send_status_message"
        => LET text == op.text
               out == EscapedPart
           IN  /\ Len(out) = PlaceOf(text, Len(text))
               /\ \A i \in DOMAIN text :
                     /\ out[PlaceOf(text, i)] = text[i]
                     /\ text[i] \in Reserved => out[PlaceOf(text, i) - 1] = 92
               /\ \A j \in DOMAIN out :
                     out[j] \in Reserved => (j > 1 /\ out[j - 1] = 92)
               /\ text = <<>> => out = <<>>

EscapeSinglePassWitness ==
    /\ op.name = "send_status_message"
    /\ op.text = <<92, 46, 10>>
    /\ EscapedPart = <<92, 92, 46, 10>>

----------------------------------------------------------------------------
(* Frame of the handlers and the notifications *)

\* C16: a step of a command handler or of a notification operation (one that
\* changes what is known of the update or of the notification), whether it
\* replies, rejects or fails, leaves is_monitoring, last_login_time,
\* last_fetch_time, start_time and admin_chat_ids as they were; start_time
\* is always the value set at construction.
HandlersLeaveStateAlone ==
    /\ [](start_time = 0)
    /\ [][ (routerVars' # routerVars \/ notifyVars' # notifyVars)
             => UNCHANGED <<is_monitoring, last_login_time, last_fetch_time,
                            start_time, admin_chat_ids>> ]_vars

HandlersLeaveStateAloneWitness ==
    /\ update.handler = "status"
    /\ pc = "raised"
    /\ op.name = "send_error_message"
    /\ attempts # <<>>
    /\ is_monitoring
    /\ last_login_time # None
    /\ last_fetch_time = None
    /\ start_time = 0

----------------------------------------------------------------------------
(* Status requests and a storage collaborator that does not answer *)

\* C17: a status request that waits for the storage collaborator's count
\* eventually stops waiting (it finishes with a reply or an error), even if
\* the collaborator never answers, so that the next update can be handled.
StalledStatusFinishes == (pc = "await_storage") ~> (pc # "await_storage")

----------------------------------------------------------------------------
(* What one status reply shows of the status attributes *)

Shown(r) == <<r.monitoring, r.last_login, r.last_fetch>>
ShownTime(t) == [never |-> t = None, at |-> t]
Held ==
    <<IF is_monitoring THEN "Active" ELSE "Inactive",
      ShownTime(last_login_time), ShownTime(last_fetch_time)>>
StatusWaits == pc = "await_storage" /\ pc' = "await_storage"
StatusSends == pc = "await_storage" /\ replies' # replies

\* C18: the monitoring flag, last login and last fetch of one status reply are
\* the values the status attributes held together at the step that began the
\* request: the text takes all three in that one step, no step taken while the
\* request waits for the count changes them in the text, and the reply shows
\* the text's three values whatever the attributes have become; only the
\* count is taken later.
StatusSnapshot ==
    [][ /\ StatusBegins => Shown(status_text') = Held
        /\ StatusWaits => Shown(status_text') = Shown(status_text)
        /\ StatusSends
             => /\ Shown(replies'[Len(replies')]) = Shown(status_text)
                /\ status_text.otp_count = None
                /\ replies'[Len(replies')].otp_count = calls'[1].arg
      ]_vars

StatusSnapshotWitness ==
    /\ update.handler = "status"
    /\ pc = "returned"
    /\ Shown(replies[1]) = <<"Inactive", ShownTime(None), ShownTime(0)>>
    /\ Held = <<"Active", ShownTime(0), ShownTime(TickSeconds)>>
    /\ replies[1].otp_count = 7

----------------------------------------------------------------------------
(* Properties of run and of notifications before initialize *)

Senders == {"send_admin_message", "send_status_message", "send_error_message"}
StartedText == <<8505, 65039, 32>> \o BotStarted
Events(name) == {i \in DOMAIN logged : logged[i].event = name}
\* attempts i+1 .. i+Len(admin_chat_ids) deliver text to every admin in turn
OneBroadcast(i, text) ==
    \A k \in DOMAIN admin_chat_ids :
        /\ i + k \in DOMAIN attempts
        /\ attempts[i + k].chat_id = admin_chat_ids[k]
        /\ attempts[i + k].text = text

\* C19: on a bot whose application was never set, a notification operation
\* attempts no delivery and returns; run has attempted the "Bot started"
\* broadcast, and nothing else, when it is inside run_polling; and a run ended
\* by a failure of polling has logged the failure once, has broadcast after
\* the "Bot started" attempts exactly one error report, the one of that
\* failure, and has raised.
UninitializedSilentAndRunOrder ==
    /\ (op.name \in Senders /\ ~application)
          => (attempts = <<>> /\ op.result = "returned")
    /\ Polling
          => /\ application
             /\ Len(attempts) = Len(admin_chat_ids)
             /\ OneBroadcast(0, StartedText)
             /\ Events("run_error") = {}
    /\ (op.name = "run" /\ op.result = "raised")
          => /\ Cardinality(Events("run_error")) = 1
             /\ Events("run_starting") = {1}
             /\ error_msg = error_report(op.text, format_exc(op.trace_len))
             /\ error_msg # StartedText
             /\ application
                   => /\ Len(attempts) = 2 * Len(admin_chat_ids)
                      /\ OneBroadcast(0, StartedText)
                      /\ OneBroadcast(Len(admin_chat_ids), error_msg)
             /\ ~application
                   => /\ attempts = <<>>
                      /\ op.text = NoPollingAttr
                      /\ Cardinality(Events("not_initialized")) = 2
                      /\ \E i \in Events("not_initialized"),
                            j \in Events("not_initialized"), 
                            e \in Events("run_error") : i < e /\ e < j

UninitializedSilentAndRunOrderWitness ==
    /\ op.name = "run"
    /\ op.result = "raised"
    /\ ~application
    /\ Len(admin_chat_ids) = 2
    /\ attempts = <<>>
    /\ logged = <<Logged("run_starting", 0), Logged("not_initialized", 0),
                  Logged("run_error", 0), Logged("not_initialized", 0)>>

====
